---- MODULE Spec2Model ----
(***************************************************************************)
(* Model of acorn-node: the GraphQL schema converter (schema -> tools) and *)
(* the APIFunction tool (model-facing definition, validation, execution).  *)
(*                                                                         *)
(* Strings of the synthesized query are sequences of tokens: a name, a    *)
(* punctuation mark or a brace is one token, so that commas and nesting    *)
(* can be counted.  A GraphQL type is the sequence of its wrappers         *)
(* followed by its named type: [Int!]! is <<"NN", "L", "NN", "Int">>.     *)
(***************************************************************************)
EXTENDS Integers, Sequences, FiniteSets, TLC

VARIABLES
    schema,                 \* GraphQLSchemaConverter.schema: [query, mutation, objects]
    maxDepth,               \* config.maxDepth
    ignorePrefixes,         \* config.operationFilter = ignorePrefix(...ignorePrefixes)
    impl,                   \* which visit: "converter" or "tool" (the copy in api-function.ts)
    invalidNames,           \* the executor's validate(definition) rejects these names
    pc,                     \* position in convertSchema
    idx,                    \* index of the next root field to map
    mapped,                 \* results of the running .map(...): tools and nulls
    functionsFromQueries,
    functionsFromMutations,
    returned,               \* convertSchema's return value, <<list>> once returned
    errorLog,               \* console.error calls of createApiFunctionFromGraphQLOperation
    document,               \* parse(operationDefinition).definitions of convertOperations
    functions,              \* the functions array convertOperations fills
    thrown,                 \* the error convertOperations raised, <<error>> once raised
    executorKind,           \* how the executor's validate(definition, args) decides
    tool,                   \* the APIFunction under call, <<tool>> once constructed
    constructedFrom,        \* the arguments its constructor was given
    constructError,         \* the error the constructor raised, <<error>> if it did
    modelFunction,          \* what the last getModelFunction() returned
    created,                \* what StandardAPIFunctionFactory.create was given and gave
    batch,                  \* the running APIFunction.executeTools call, <<call>> if any
    lastCall                \* the last execute/validateAndExecute(FromString) call

convVars == <<schema, maxDepth, ignorePrefixes, impl, invalidNames, pc, idx, mapped,
              functionsFromQueries, functionsFromMutations, returned, errorLog,
              document, functions, thrown>>

toolVars == <<executorKind, tool, constructedFrom, constructError, modelFunction, lastCall,
              created, batch>>

convVarsOfTool == <<schema, maxDepth, ignorePrefixes, impl, pc, idx, mapped,
                    functionsFromQueries, functionsFromMutations, returned, errorLog,
                    document, functions, thrown>>

-----------------------------------------------------------------------------
(* Bounds of the model *)

MaxDepthBound == 2      \* maxDepth ranges over 0..MaxDepthBound
MaxFields == 2          \* fields of an object type
MaxRootFields == 2      \* fields of the Query root type
MaxDefinitions == 2     \* definitions of an operation document
MaxToolCalls == 2       \* tool calls of one executeTools call

-----------------------------------------------------------------------------
(* The schema language: named types *)

ScalarNames == {"Int", "Float", "String", "Boolean", "ID", "DateTime"}
EnumNames == {"Color"}
InputObjectNames == {"Filter", "Outer"}
ObjectNames == {"A", "B"}

EnumValues(name) == IF name = "Color" THEN {"RED", "GREEN"} ELSE {}

Arg(name, type) == [name |-> name, type |-> type]
Field(name, type, args) == [name |-> name, type |-> type, args |-> args]

\* GraphQLInputObjectType.getFields(), in declaration order
InputFields(name) ==
    IF name = "Filter"
    THEN << Arg("min", <<"NN", "Int">>), Arg("max", <<"Float">>), Arg("kind", <<"Color">>) >>
    ELSE IF name = "Outer"
    THEN << Arg("label", <<"String">>), Arg("inner", <<"Filter">>) >>
    ELSE << >>

-----------------------------------------------------------------------------
(* Small helpers on sequences *)

Range(s) == {s[i] : i \in 1..Len(s)}

IsDistinct(s) == \A i, j \in 1..Len(s) : i # j => s[i] # s[j]

SeqsUpTo(S, n) == UNION {[1..k -> S] : k \in 0..n}

\* String.prototype.toLowerCase over the names the model uses
ToLowerCase(s) ==
    CASE s = "customerId" -> "customerid"
      [] s = "CustomerID" -> "customerid"
      [] s = "Limit" -> "limit"
      [] s = "Internal" -> "internal"
      [] s = "InternalStats" -> "internalstats"
      [] s = "internalBad" -> "internalbad"
      [] s = "addOrder" -> "addorder"
      [] OTHER -> s

\* String.prototype.trim over the names the model uses
Trim(s) ==
    CASE s = " Internal " -> "Internal"
      [] OTHER -> s

\* the tails a lower-cased field name of the model can have after a prefix
NameTails == {"", "stats", "bad", "internalstats", "internalbad", "orders", "search",
              "count", "ping", "addorder", "s", "order", "latest"}

\* String.prototype.startsWith
StartsWith(s, prefix) == \E tail \in NameTails : prefix \o tail = s

-----------------------------------------------------------------------------
(* Errors: new Error(message + detail) *)

\* detail is the sequence of the values interpolated into the message
Error(message, detail) == [message |-> message, detail |-> detail]

UnsupportedType == "Unsupported type: "
ExpectedField == "Expected at least one field on path: "
FunctionInvalid == "Function invalid for API: "
NoDefinitions == "Operation definition contains no definitions"
ExpectedOperation == "Expected definition to be an operation, but got: "
NoSubscriptions == "Do not support subscriptions: "
UnexpectedType == "Unexpected type: "

-----------------------------------------------------------------------------
(* Type mapper *)

\* scalarTypeMap[name] || defaultScalarType
defaultScalarType == "string"

scalarTypeMap(name) ==
    CASE name = "Int" -> "integer"
      [] name = "Float" -> "number"
      [] name = "String" -> "string"
      [] name = "Boolean" -> "boolean"
      [] name = "ID" -> "string"
      [] OTHER -> defaultScalarType

\* a FunctionDefinitionArgument; items and enum are present (one element) or absent
ArgumentDef(type, items, enum) == [type |-> type, items |-> items, enum |-> enum]

convertRequired(type) ==
    IF Head(type) = "NN"
    THEN [type |-> Tail(type), required |-> TRUE]
    ELSE [type |-> type, required |-> FALSE]

\* the type as printType renders it: [Int!]!
RECURSIVE printTypeSignature(_)
printTypeSignature(type) ==
    IF Head(type) = "NN" THEN printTypeSignature(Tail(type)) \o "!"
    ELSE IF Head(type) = "L" THEN "[" \o printTypeSignature(Tail(type)) \o "]"
    ELSE Head(type)

\* [ok, def] or [ok = FALSE, error]
RECURSIVE convertToArgument(_)
convertToArgument(type) ==
    IF Head(type) \in ScalarNames
    THEN [ok |-> TRUE, def |-> ArgumentDef(scalarTypeMap(Head(type)), <<>>, <<>>)]
    ELSE IF Head(type) \in EnumNames
    THEN [ok |-> TRUE, def |-> ArgumentDef("string", <<>>, <<EnumValues(Head(type))>>)]
    ELSE IF Head(type) = "L"
    THEN LET item == convertToArgument(convertRequired(Tail(type)).type)
         IN  IF item.ok
             THEN [ok |-> TRUE, def |-> ArgumentDef("array", <<item.def>>, <<>>)]
             ELSE item
    ELSE [ok |-> FALSE, error |-> Error(UnsupportedType, <<printTypeSignature(type)>>)]

RECURSIVE unwrapType(_)
unwrapType(type) ==
    IF Head(type) = "L" THEN unwrapType(Tail(type))
    ELSE IF Head(type) = "NN" THEN unwrapType(Tail(type))
    ELSE type

\* type instanceof GraphQLObjectType
IsObjectType(type) == Head(type) \in ObjectNames

\* unwrappedType.type instanceof GraphQLInputObjectType
IsInputObjectType(type) == Head(type) \in InputObjectNames

-----------------------------------------------------------------------------
(* Parameter schema: properties is the JS object in insertion order *)

EmptyParameters == [type |-> "object", properties |-> <<>>, required |-> <<>>]

PropertyNames(properties) == {properties[i].name : i \in 1..Len(properties)}

\* properties[argName] = argDef
SetProperty(properties, argName, argDef) ==
    IF argName \in PropertyNames(properties)
    THEN [i \in 1..Len(properties) |->
            IF properties[i].name = argName
            THEN [name |-> argName, def |-> argDef]
            ELSE properties[i]]
    ELSE Append(properties, [name |-> argName, def |-> argDef])

initializeFunctionDefinition(name) == [name |-> name, parameters |-> EmptyParameters]

-----------------------------------------------------------------------------
(* Traversal context *)

combineStrings(prefix, suffix) ==
    prefix \o (IF prefix # "" THEN "_" ELSE "") \o suffix

VisitContext(operationName, prefix, numArgs, path) ==
    [operationName |-> operationName, prefix |-> prefix, numArgs |-> numArgs, path |-> path]

\* a nested context that forgets the arguments declared above it
nestedWithoutArguments(ctx, fieldName, type, additionalArgs) ==
    VisitContext(ctx.operationName \o "." \o fieldName,
                 combineStrings(ctx.prefix, fieldName),
                 ctx.numArgs,
                 Append(ctx.path, type))

nested(ctx, fieldName, type, additionalArgs) ==
    VisitContext(ctx.operationName \o "." \o fieldName,
                 combineStrings(ctx.prefix, fieldName),
                 ctx.numArgs + additionalArgs,
                 Append(ctx.path, type))

-----------------------------------------------------------------------------
(* Type-signature renderer: printType of a dummy container, then the regex *)

printFieldType(field) == printTypeSignature(field.type)

printArgumentType(argument) == printTypeSignature(argument.type)

-----------------------------------------------------------------------------
(* Schema traversal engine.  A step that uses the result of a call several  *)
(* times takes it as a parameter: e.g. visitArgs computes processField(..)  *)
(* and AfterArgument continues with its result.                             *)

\* a variant of processField that files the descriptor under the argument's
\* original name while required receives the flattened name
ProcessFieldKeyedByOriginalName(argDef, params, ctx, numArgs, unwrappedType, argName, originalName) ==
    IF ~argDef.ok
    THEN [ok |-> FALSE, error |-> argDef.error]
    ELSE [ok |-> TRUE,
          params |-> [type |-> params.type,
                      required |-> IF unwrappedType.required
                                   THEN Append(params.required, argName)
                                   ELSE params.required,
                      properties |-> SetProperty(params.properties, originalName, argDef.def)],
          argName |-> "$" \o argName,
          queryHeader |-> IF ctx.numArgs + numArgs > 0 THEN <<", ">> ELSE <<>>,
          queryBody |-> (IF numArgs > 0 THEN <<", ">> ELSE <<>>)
                        \o <<originalName, ": ", "$" \o argName>>]

\* processField after convertToArgument: when that throws, params is untouched
ProcessFieldResult(argDef, params, ctx, numArgs, unwrappedType, argName, originalName) ==
    IF ~argDef.ok
    THEN [ok |-> FALSE, error |-> argDef.error]
    ELSE [ok |-> TRUE,
          params |-> [type |-> params.type,
                      required |-> IF unwrappedType.required
                                   THEN Append(params.required, argName)
                                   ELSE params.required,
                      properties |-> SetProperty(params.properties, argName, argDef.def)],
          argName |-> "$" \o argName,
          queryHeader |-> IF ctx.numArgs + numArgs > 0 THEN <<", ">> ELSE <<>>,
          queryBody |-> (IF numArgs > 0 THEN <<", ">> ELSE <<>>)
                        \o <<originalName, ": ", "$" \o argName>>]

\* processField: the descriptor and the two text fragments of one argument
processField(params, ctx, numArgs, unwrappedType, argName, originalName) ==
    ProcessFieldResult(convertToArgument(unwrappedType.type),
                       params, ctx, numArgs, unwrappedType, argName, originalName)

\* queryBody += `${arg.name}: { `; the copy in api-function.ts separates it
\* from the previous argument
InputObjectOpen(i, argName) ==
    IF impl = "tool"
    THEN (IF i = 1 THEN <<>> ELSE <<", ">>) \o <<argName, ": { ">>
    ELSE <<argName, ": { ">>

\* the copy in api-function.ts drops the ", " before the first nested field
NestedFieldBody(j, queryBody) ==
    IF impl = "tool" /\ j = 1 /\ Head(queryBody) = ", "
    THEN Tail(queryBody)
    ELSE queryBody

\* a traversal without the cycle guard
CycleNeverDetected(ctx, type) == FALSE

\* a depth guard that lets one more level through
DepthExceededOffByOne(ctx) == Len(ctx.path) > maxDepth

\* context.path.includes(type)
CycleDetected(ctx, type) == \E i \in 1..Len(ctx.path) : ctx.path[i] = Head(type)

\* context.path.length + 1 > this.config.maxDepth
DepthExceeded(ctx) == Len(ctx.path) + 1 > maxDepth

\* the accumulator of one visit: the shared params, the local numArgs, the
\* two fragments, and the error thrown so far (<<>> when none)
Acc(err, params, numArgs, queryParams, queryBody, atLeastOneField) ==
    [err |-> err, params |-> params, numArgs |-> numArgs, queryParams |-> queryParams,
     queryBody |-> queryBody, atLeastOneField |-> atLeastOneField]

RECURSIVE visitInputFields(_, _, _, _)
RECURSIVE AfterInputField(_, _, _, _, _)

\* one nested field of a flattened input object, p its processField
AfterInputField(fields, j, acc, ctx, p) ==
    IF ~p.ok
    THEN [acc EXCEPT !.err = <<p.error>>]
    ELSE visitInputFields(fields, j + 1,
            Acc(<<>>, p.params, acc.numArgs + 1,
                acc.queryParams \o p.queryHeader
                    \o <<p.argName, ": ", printFieldType(fields[j])>>,
                acc.queryBody \o NestedFieldBody(j, p.queryBody),
                acc.atLeastOneField),
            ctx)

\* for (const nestedField of Object.values(inputType.getFields()))
visitInputFields(fields, j, acc, ctx) ==
    IF j > Len(fields) \/ acc.err # <<>>
    THEN acc
    ELSE AfterInputField(fields, j, acc, ctx,
            processField(acc.params, ctx, acc.numArgs,
                         convertRequired(fields[j].type),
                         combineStrings(ctx.prefix, fields[j].name),
                         fields[j].name))

RECURSIVE visitArgs(_, _, _, _)
RECURSIVE AfterInputObject(_, _, _, _)
RECURSIVE AfterArgument(_, _, _, _, _)

\* the flattened input object is closed: queryBody += " }"
AfterInputObject(args, i, ctx, inner) ==
    visitArgs(args, i + 1,
              IF inner.err # <<>> THEN inner ELSE [inner EXCEPT !.queryBody = @ \o <<" }">>],
              ctx)

\* an argument that is no input object, p its processField
AfterArgument(args, i, acc, ctx, p) ==
    IF ~p.ok
    THEN [acc EXCEPT !.err = <<p.error>>]
    ELSE visitArgs(args, i + 1,
            Acc(<<>>, p.params, acc.numArgs + 1,
                acc.queryParams \o p.queryHeader
                    \o <<p.argName, ": ", printArgumentType(args[i])>>,
                acc.queryBody \o p.queryBody,
                acc.atLeastOneField),
            ctx)

\* for (const arg of field.args)
visitArgs(args, i, acc, ctx) ==
    IF i > Len(args) \/ acc.err # <<>>
    THEN acc
    ELSE IF IsInputObjectType(convertRequired(args[i].type).type)
    THEN AfterInputObject(args, i, ctx,
            visitInputFields(InputFields(Head(convertRequired(args[i].type).type)), 1,
                             [acc EXCEPT !.queryBody = @ \o InputObjectOpen(i, args[i].name)],
                             ctx))
    ELSE AfterArgument(args, i, acc, ctx,
            processField(acc.params, ctx, acc.numArgs, convertRequired(args[i].type),
                         combineStrings(ctx.prefix, args[i].name), args[i].name))

VisitResult(success, err, params, queryParams, queryBody) ==
    [success |-> success, err |-> err, params |-> params,
     queryParams |-> queryParams, queryBody |-> queryBody]

RECURSIVE visit(_, _, _)
RECURSIVE visitChildren(_, _, _, _, _)
RECURSIVE AfterChild(_, _, _, _, _, _)

\* one child of the object expansion, r its visit
AfterChild(fields, k, acc, ctx, objectType, r) ==
    visitChildren(fields, k + 1,
        Acc(r.err, r.params, acc.numArgs,
            acc.queryParams \o r.queryParams,
            acc.queryBody \o r.queryBody,
            acc.atLeastOneField \/ r.success),
        ctx, objectType)

\* for (const nestedField of Object.values(objectType.getFields()))
visitChildren(fields, k, acc, ctx, objectType) ==
    IF k > Len(fields) \/ acc.err # <<>>
    THEN acc
    ELSE AfterChild(fields, k, acc, ctx, objectType,
            visit(fields[k], acc.params,
                  nested(ctx, fields[k].name, objectType, acc.numArgs)))

\* an object expansion that reports an empty selection as a cut branch
CloseSelectionWithoutThrow(context, children) ==
    IF children.err # <<>>
    THEN VisitResult(FALSE, children.err, children.params, <<>>, <<>>)
    ELSE IF ~children.atLeastOneField
    THEN VisitResult(FALSE, <<>>, children.params, <<>>, <<>>)
    ELSE VisitResult(TRUE, <<>>, children.params, children.queryParams,
                     children.queryBody \o <<"}", "\n">>)

\* the end of the object expansion: the throw when no child succeeded
CloseSelection(context, children) ==
    IF children.err # <<>>
    THEN VisitResult(FALSE, children.err, children.params, <<>>, <<>>)
    ELSE IF ~children.atLeastOneField
    THEN VisitResult(FALSE, <<Error(ExpectedField, <<context.operationName>>)>>,
                     children.params, <<>>, <<>>)
    ELSE VisitResult(TRUE, <<>>, children.params, children.queryParams,
                     children.queryBody \o <<"}", "\n">>)

\* visit after the arguments: the object expansion, or the leaf
VisitSelection(field, context, type, afterArgs) ==
    IF afterArgs.err # <<>>
    THEN VisitResult(FALSE, afterArgs.err, afterArgs.params, <<>>, <<>>)
    ELSE IF IsObjectType(type)
    THEN CloseSelection(context,
            visitChildren(schema.objects[Head(type)], 1,
                [afterArgs EXCEPT !.queryBody =
                    @ \o (IF Len(field.args) > 0 THEN <<")">> ELSE <<>>) \o <<" {\n">>],
                context, Head(type)))
    ELSE VisitResult(TRUE, <<>>, afterArgs.params, afterArgs.queryParams,
                     afterArgs.queryBody
                        \o (IF Len(field.args) > 0 THEN <<")">> ELSE <<>>) \o <<"\n">>)

\* visit(field, params, context): {success, queryParams, queryBody}; a throw
\* is err = <<error>>; params is the shared object after the call
visit(field, params, context) ==
    IF IsObjectType(unwrapType(field.type)) /\ CycleDetected(context, unwrapType(field.type))
    THEN VisitResult(FALSE, <<>>, params, <<>>, <<>>)
    ELSE IF IsObjectType(unwrapType(field.type)) /\ DepthExceeded(context)
    THEN VisitResult(FALSE, <<>>, params, <<>>, <<>>)
    ELSE VisitSelection(field, context, unwrapType(field.type),
            visitArgs(field.args, 1,
                      Acc(<<>>, params, 0, <<>>,
                          <<field.name>> \o (IF Len(field.args) > 0 THEN <<"(">> ELSE <<>>),
                          FALSE),
                      context))

-----------------------------------------------------------------------------
(* Tool entity and factory *)

\* apiExecutor.validate(func): the executor's structural acceptance rules
ExecutorValidateDefinition(func) ==
    IF func.name \in invalidNames
    THEN [valid |-> FALSE, errorMessage |-> "unsupported definition"]
    ELSE [valid |-> TRUE, errorMessage |-> ""]

\* a constructor that does not consult the executor
APIFunctionUnvalidated(func, contextKeys, apiQuery) ==
    [ok |-> TRUE,
     tool |-> [function |-> func, contextKeys |-> contextKeys, apiQuery |-> apiQuery]]

\* new APIFunction(func, contextKeys, apiQuery, apiExecutor)
APIFunctionConstructor(func, contextKeys, apiQuery) ==
    LET validationResult == ExecutorValidateDefinition(func)
    IN  IF ~validationResult.valid
        THEN [ok |-> FALSE,
              error |-> Error(FunctionInvalid, <<func.name, validationResult.errorMessage>>)]
        ELSE [ok |-> TRUE,
              tool |-> [function |-> func, contextKeys |-> contextKeys, apiQuery |-> apiQuery]]

\* a parameter of a call that passes fewer arguments than the callee declares
Undefined == "undefined"

\* reading a property of undefined
TypeErrorOfUndefined == "Cannot read properties of undefined: "

\* new APIFunction(...) by position, the executor being one of the arguments:
\* the constructor stores func and then calls apiExecutor.validate(func)
NewAPIFunction(func, contextKeys, apiQuery, apiExecutor) ==
    IF apiExecutor = Undefined
    THEN [ok |-> FALSE, error |-> Error(TypeErrorOfUndefined, <<"validate">>)]
    ELSE IF ~APIFunctionConstructor(func, contextKeys, apiQuery).ok
    THEN APIFunctionConstructor(func, contextKeys, apiQuery)
    ELSE [ok |-> TRUE,
          tool |-> APIFunctionConstructor(func, contextKeys, apiQuery).tool,
          apiExecutor |-> apiExecutor]

\* new StandardAPIFunctionFactory(apiExecutor, contextKeys): the constructor
\* declares the executor only, a second argument is dropped
StandardAPIFunctionFactory(apiExecutor, contextKeys) == [apiExecutor |-> apiExecutor]

\* StandardAPIFunctionFactory.create:
\* new APIFunction(functionDef, query, this.apiExecutor)
StandardAPIFunctionFactoryCreate(factory, functionDef, query) ==
    NewAPIFunction(functionDef, query, factory.apiExecutor, Undefined)

\* the context keys the function factory was built with
FactoryContextKeys == {"customerid"}

\* functionFactory.create(functionDef, query)
FactoryCreate(functionDef, query) ==
    APIFunctionConstructor(functionDef, FactoryContextKeys, query)

-----------------------------------------------------------------------------
(* convertSchema *)

\* GraphQLSchemaConverterConfig.ignorePrefix(...prefixes)
operationFilter(operation, name) ==
    ~\E prefix \in ignorePrefixes :
        StartsWith(ToLowerCase(Trim(name)), ToLowerCase(Trim(prefix)))

\* convertToApiFunction after the traversal r: the query and the tool
ApiFunctionOf(operationType, field, functionDef, r) ==
    IF r.err # <<>>
    THEN [ok |-> FALSE, error |-> r.err[1]]
    ELSE FactoryCreate([name |-> functionDef.name, parameters |-> r.params],
                       <<operationType, " ", field.name, "(">> \o r.queryParams
                           \o <<") {\n">> \o r.queryBody \o <<"\n}">>)

convertToApiFunction(operationType, field) ==
    ApiFunctionOf(operationType, field, initializeFunctionDefinition(field.name),
        visit(field, initializeFunctionDefinition(field.name).parameters,
              VisitContext(operationType \o "." \o field.name, "", 0, <<>>)))

\* the catch of the mapper: the tool, or null (<<>>) with the error logged
MapperResult(field, r) ==
    IF r.ok
    THEN [value |-> <<r.tool>>, logged |-> <<>>]
    ELSE [value |-> <<>>, logged |-> <<[field |-> field.name, error |-> r.error]>>]

\* the mapper of convertSchema
createApiFunctionFromGraphQLOperation(operationName, field) ==
    IF operationFilter(operationName, field.name)
    THEN MapperResult(field, convertToApiFunction(operationName, field))
    ELSE [value |-> <<>>, logged |-> <<>>]

\* a filter that keeps the values before the first null only
RECURSIVE KeepUntilNull(_)
KeepUntilNull(values) ==
    IF values = <<>> \/ Head(values) = <<>> THEN <<>>
    ELSE Head(values) \o KeepUntilNull(Tail(values))

\* .filter(Boolean)
RECURSIVE FilterBoolean(_)
FilterBoolean(values) ==
    IF values = <<>> THEN <<>>
    ELSE Head(values) \o FilterBoolean(Tail(values))

schemaFrame == <<schema, maxDepth, ignorePrefixes, impl, invalidNames, document, functions, thrown,
                 toolVars>>

MapQueryField ==
    /\ pc = "queries"
    /\ idx <= Len(schema.query)
    /\ LET r == createApiFunctionFromGraphQLOperation("query", schema.query[idx])
       IN  /\ mapped' = Append(mapped, r.value)
           /\ errorLog' = errorLog \o r.logged
    /\ idx' = idx + 1
    /\ UNCHANGED <<pc, functionsFromQueries, functionsFromMutations, returned>>
    /\ UNCHANGED schemaFrame

FilterQueries ==
    /\ pc = "queries"
    /\ idx > Len(schema.query)
    /\ functionsFromQueries' = FilterBoolean(mapped)
    /\ mapped' = <<>>
    /\ idx' = 1
    /\ pc' = "mutations"
    /\ UNCHANGED <<functionsFromMutations, returned, errorLog>>
    /\ UNCHANGED schemaFrame

MapMutationField ==
    /\ pc = "mutations"
    /\ idx <= Len(schema.mutation)
    /\ LET r == createApiFunctionFromGraphQLOperation("mutation", schema.mutation[idx])
       IN  /\ mapped' = Append(mapped, r.value)
           /\ errorLog' = errorLog \o r.logged
    /\ idx' = idx + 1
    /\ UNCHANGED <<pc, functionsFromQueries, functionsFromMutations, returned>>
    /\ UNCHANGED schemaFrame

FilterMutations ==
    /\ pc = "mutations"
    /\ idx > Len(schema.mutation)
    /\ functionsFromMutations' = FilterBoolean(mapped)
    /\ mapped' = <<>>
    /\ pc' = "return"
    /\ UNCHANGED <<idx, functionsFromQueries, returned, errorLog>>
    /\ UNCHANGED schemaFrame

ReturnFunctions ==
    /\ pc = "return"
    /\ returned' = <<functionsFromQueries \o functionsFromMutations>>
    /\ pc' = "done"
    /\ UNCHANGED <<idx, mapped, functionsFromQueries, functionsFromMutations, errorLog>>
    /\ UNCHANGED schemaFrame

-----------------------------------------------------------------------------
(* convertOperations *)

\* one line of the source text: the text before a '#' (or the whole line) and
\* whether the line holds a '#'
Line(text, hasComment) == [text |-> text, hasComment |-> hasComment]

\* an OperationDefinitionNode (or another definition) of the parsed document
Definition(kind, operation, name, variableDefinitions, lines) ==
    [kind |-> kind, operation |-> operation, name |-> name,
     variableDefinitions |-> variableDefinitions, lines |-> lines]

\* String.prototype.trim over the source lines the model uses
TrimLine(text) ==
    CASE text = "  " -> ""
      [] text = "  temp " -> "temp"
      [] text = "  readings " -> "readings"
      [] OTHER -> text

\* extractOperation: the lines of the operation with comments removed and
\* empty lines dropped (joined by "\n": one token per line)
RECURSIVE extractOperation(_)
extractOperation(lines) ==
    IF lines = <<>> THEN <<>>
    ELSE LET line == IF Head(lines).hasComment
                     THEN TrimLine(Head(lines).text)
                     ELSE Head(lines).text
         IN  (IF line = "" THEN <<>> ELSE <<line>>) \o extractOperation(Tail(lines))

\* convertType(type: TypeNode)
RECURSIVE convertType(_)
convertType(type) ==
    IF Head(type) = "L"
    THEN LET items == convertType(Tail(type))
         IN  IF items.ok
             THEN [ok |-> TRUE, def |-> ArgumentDef("array", <<items.def>>, <<>>)]
             ELSE items
    ELSE IF Head(type) # "NN"
    THEN [ok |-> TRUE, def |-> ArgumentDef(scalarTypeMap(Head(type)), <<>>, <<>>)]
    ELSE [ok |-> FALSE, error |-> Error(UnexpectedType, <<"NonNullType">>)]

\* node.variableDefinitions?.forEach(...)
RECURSIVE convertVariableDefinitions(_, _)
convertVariableDefinitions(varDefs, functionDef) ==
    IF varDefs = <<>>
    THEN [ok |-> TRUE, functionDef |-> functionDef]
    ELSE LET varDef == Head(varDefs)
             required == Head(varDef.type) = "NN"
             type == IF Head(varDef.type) = "NN" THEN Tail(varDef.type) ELSE varDef.type
             argumentDef == convertType(type)
         IN  IF ~argumentDef.ok
             THEN [ok |-> FALSE, error |-> argumentDef.error]
             ELSE convertVariableDefinitions(Tail(varDefs),
                    [name |-> functionDef.name,
                     parameters |->
                        [type |-> "object",
                         required |-> IF required
                                      THEN Append(functionDef.parameters.required, varDef.name)
                                      ELSE functionDef.parameters.required,
                         properties |-> SetProperty(functionDef.parameters.properties,
                                                    varDef.name, argumentDef.def)]])

\* a conversion that takes an operation of any kind
convertOperationOfAnyKind(node) ==
    convertVariableDefinitions(node.variableDefinitions,
                               initializeFunctionDefinition(node.name))

convertOperationDefinition(node) ==
    IF node.operation # "query" /\ node.operation # "mutation"
    THEN [ok |-> FALSE, error |-> Error(NoSubscriptions, <<node.name>>)]
    ELSE convertVariableDefinitions(node.variableDefinitions,
                                    initializeFunctionDefinition(node.name))

\* the body of document.definitions.forEach in convertOperations
convertDefinition(definition) ==
    IF definition.kind # "OperationDefinition"
    THEN [ok |-> FALSE, error |-> Error(ExpectedOperation, <<definition.kind>>)]
    ELSE LET funcDef == convertOperationDefinition(definition)
         IN  IF ~funcDef.ok
             THEN funcDef
             ELSE FactoryCreate(funcDef.functionDef, extractOperation(definition.lines))

operationsFrame == <<schema, maxDepth, ignorePrefixes, impl, invalidNames, document, mapped,
                     functionsFromQueries, functionsFromMutations, errorLog, toolVars>>

\* const document = parse(operationDefinition) and the check for no definitions
ParseOperations ==
    /\ pc = "parse"
    /\ IF Len(document) = 0
       THEN /\ thrown' = <<Error(NoDefinitions, <<>>)>>
            /\ pc' = "thrown"
       ELSE /\ thrown' = thrown
            /\ pc' = "operations"
    /\ UNCHANGED <<idx, functions, returned>>
    /\ UNCHANGED operationsFrame

\* one iteration of document.definitions.forEach
ConvertDefinition ==
    /\ pc = "operations"
    /\ idx <= Len(document)
    /\ LET r == convertDefinition(document[idx])
       IN  IF r.ok
           THEN /\ functions' = Append(functions, r.tool)
                /\ idx' = idx + 1
                /\ UNCHANGED <<pc, thrown>>
           ELSE /\ thrown' = <<r.error>>
                /\ pc' = "thrown"
                /\ UNCHANGED <<functions, idx>>
    /\ UNCHANGED returned
    /\ UNCHANGED operationsFrame

\* return functions
ReturnOperations ==
    /\ pc = "operations"
    /\ idx > Len(document)
    /\ returned' = <<functions>>
    /\ pc' = "done"
    /\ UNCHANGED <<idx, functions, thrown>>
    /\ UNCHANGED operationsFrame

-----------------------------------------------------------------------------
(* The schemas and documents the converter is run on *)

\* fields an object type can declare
NestedPool ==
    { Field("id", <<"NN", "ID">>, <<>>),
      Field("total", <<"Int">>, << Arg("unit", <<"String">>) >>),
      Field("a", <<"A">>, <<>>),
      Field("b", <<"L", "NN", "B">>, << Arg("limit", <<"NN", "Int">>) >>) }

ObjectFieldSeqs ==
    {s \in SeqsUpTo(NestedPool, MaxFields) : Len(s) >= 1 /\ IsDistinct(s)}

\* fields the Query root type can declare
QueryPool ==
    { Field("orders", <<"L", "A">>, << Arg("customerid", <<"NN", "ID">>) >>),
      Field("search", <<"B">>,
            << Arg("limit", <<"Int">>), Arg("filter", <<"NN", "Filter">>) >>),
      Field("count", <<"NN", "Int">>,
            << Arg("filter", <<"Filter">>), Arg("tags", <<"L", "NN", "String">>),
               Arg("min", <<"NN", "DateTime">>) >>),
      Field("report", <<"A">>,
            << Arg("label", <<"NN", "String">>), Arg("outer", <<"Outer">>) >>),
      Field("internalBad", <<"A">>, << Arg("ids", <<"L", "Filter">>) >>),
      Field("InternalStats", <<"B">>, << Arg("Limit", <<"Int">>) >>) }

\* fields the Mutation root type can declare
MutationPool ==
    { Field("addOrder", <<"NN", "A">>, << Arg("order", <<"NN", "Filter">>) >>),
      Field("reset", <<"Boolean">>, <<>>) }

QuerySeqs == {s \in SeqsUpTo(QueryPool, MaxRootFields) : IsDistinct(s)}
MutationSeqs == {s \in SeqsUpTo(MutationPool, 1) : TRUE}

Schema(query, mutation, objects) ==
    [query |-> query, mutation |-> mutation, objects |-> objects]

\* two object graphs: a chain and a mutual cycle
ChainGraph == [t \in ObjectNames |->
    IF t = "A" THEN << Field("id", <<"NN", "ID">>, <<>>),
                       Field("b", <<"L", "NN", "B">>, << Arg("limit", <<"NN", "Int">>) >>) >>
    ELSE << Field("total", <<"Int">>, << Arg("unit", <<"String">>) >>) >>]
MutualGraph == [t \in ObjectNames |->
    IF t = "A" THEN << Field("b", <<"L", "NN", "B">>, << Arg("limit", <<"NN", "Int">>) >>) >>
    ELSE << Field("a", <<"A">>, <<>>), Field("id", <<"NN", "ID">>, <<>>) >>]

\* every object graph under fixed roots (one of them without arguments), and every choice of
\* roots over the two graphs
GraphSchemas ==
    { Schema(<< Field("orders", <<"L", "A">>, << Arg("customerid", <<"NN", "ID">>) >>),
                Field("search", <<"B">>,
                      << Arg("limit", <<"Int">>), Arg("filter", <<"NN", "Filter">>) >>),
                Field("latest", <<"A">>, <<>>) >>,
             << Field("addOrder", <<"NN", "A">>, << Arg("order", <<"NN", "Filter">>) >>) >>,
             g) : g \in [ObjectNames -> ObjectFieldSeqs] }

RootSchemas ==
    { Schema(q, m, g) : q \in QuerySeqs, m \in MutationSeqs,
                        g \in {ChainGraph, MutualGraph} }

EmptySchema == Schema(<<>>, <<>>, [t \in ObjectNames |-> <<>>])

\* definitions an operation document can hold
DefinitionPool ==
    { Definition("OperationDefinition", "query", "HighTemps",
                 << Arg("temp", <<"NN", "Float">>) >>,
                 << Line("query HighTemps(", FALSE), Line("  ", TRUE),
                    Line("  temp ", TRUE), Line("}", FALSE) >>),
      Definition("OperationDefinition", "query", "Readings",
                 << Arg("sensorid", <<"NN", "Int">>), Arg("limit", <<"Int">>),
                    Arg("tags", <<"L", "String">>) >>,
                 << Line("query Readings {", FALSE), Line("  readings ", TRUE),
                    Line("", FALSE), Line("}", FALSE) >>),
      Definition("OperationDefinition", "mutation", "AddReading",
                 << Arg("temp", <<"Float">>), Arg("temp", <<"NN", "Float">>) >>,
                 << Line("mutation AddReading { add }", FALSE) >>),
      Definition("OperationDefinition", "query", "ByIds",
                 << Arg("limit", <<"NN", "Int">>), Arg("ids", <<"L", "NN", "Int">>) >>,
                 << Line("query ByIds { byIds }", FALSE) >>),
      Definition("OperationDefinition", "subscription", "Watch", <<>>,
                 << Line("subscription Watch { watch }", FALSE) >>),
      Definition("FragmentDefinition", "", "Parts", <<>>,
                 << Line("fragment Parts on A { id }", FALSE) >>) }

Documents == SeqsUpTo(DefinitionPool, MaxDefinitions)

-----------------------------------------------------------------------------
(* APIFunction: the model-facing definition *)

\* a field filter that compares the names as written
getFieldFilterCaseSensitive(fieldList, field) == field \notin fieldList

\* getFieldFilter(fieldList): the predicate on field names
getFieldFilter(fieldList, field) ==
    LET contextFilter == {ToLowerCase(f) : f \in fieldList}
    IN  ToLowerCase(field) \notin contextFilter

\* required.filter(fieldFilter)
RECURSIVE FilterRequired(_, _)
FilterRequired(fieldList, required) ==
    IF required = <<>> THEN <<>>
    ELSE (IF getFieldFilter(fieldList, Head(required)) THEN <<Head(required)>> ELSE <<>>)
         \o FilterRequired(fieldList, Tail(required))

\* filterObjectKeys(filter, data): the kept keys, re-inserted in order
RECURSIVE filterObjectKeys(_, _)
filterObjectKeys(fieldList, data) ==
    IF data = <<>> THEN <<>>
    ELSE (IF getFieldFilter(fieldList, Head(data).name) THEN <<Head(data)>> ELSE <<>>)
         \o filterObjectKeys(fieldList, Tail(data))

getModelFunction(t) ==
    [name |-> t.function.name,
     parameters |-> [type |-> t.function.parameters.type,
                     required |-> FilterRequired(t.contextKeys, t.function.parameters.required),
                     properties |-> filterObjectKeys(t.contextKeys,
                                                     t.function.parameters.properties)]]

-----------------------------------------------------------------------------
(* APIFunction: validation and execution *)

\* createInvalidCallMessage(functionName, errorMessage); the back quotes
\* around the function name are left out of the two fixed parts
createInvalidCallMessage(functionName, errorMessage) ==
    << "It looks like you tried to call function ", functionName,
       ", but this has failed with the following error: ", errorMessage,
       ". Please retry to call the function again. Send ONLY the JSON as a response." >>

\* apiExecutor.validate(definition, argumentsNode): an executor that checks the
\* arguments against the definition, or accepts or rejects every call
ExecutorValidateArguments(definition, argumentsNode) ==
    LET missing == {n \in Range(definition.parameters.required) : n \notin DOMAIN argumentsNode}
        unknown == DOMAIN argumentsNode \ PropertyNames(definition.parameters.properties)
    IN  IF executorKind = "acceptAll"
        THEN [valid |-> TRUE, errorMessage |-> ""]
        ELSE IF executorKind = "rejectAll"
        THEN [valid |-> FALSE, errorMessage |-> "rejected"]
        ELSE IF missing # {}
        THEN [valid |-> FALSE, errorMessage |-> "required property missing"]
        ELSE IF unknown # {}
        THEN [valid |-> FALSE, errorMessage |-> "unknown property"]
        ELSE [valid |-> TRUE, errorMessage |-> ""]

\* a validation of the arguments against the full definition
validateAgainstFullDefinition(t, argumentsNode) ==
    [definition |-> t.function, arguments |-> argumentsNode,
     result |-> ExecutorValidateArguments(t.function, argumentsNode)]

\* validate(argumentsNode): [definition, arguments] is what the executor was given
validate(t, argumentsNode) ==
    [definition |-> getModelFunction(t), arguments |-> argumentsNode,
     result |-> ExecutorValidateArguments(getModelFunction(t), argumentsNode)]

\* context.get(key), keys compared case-insensitively: <<value>> or <<>>
ContextGet(context, key) ==
    LET hits == {k \in DOMAIN context : ToLowerCase(k) = ToLowerCase(key)}
    IN  IF hits = {} THEN <<>> ELSE <<context[CHOOSE k \in hits : TRUE]>>

\* addOrOverrideFromContext(argumentsNode, contextKeys, context)
addOrOverrideFromContext(argumentsNode, contextKeys, context) ==
    LET supplied == {k \in contextKeys : ContextGet(context, k) # <<>>}
    IN  [k \in DOMAIN argumentsNode \cup supplied |->
            IF k \in supplied THEN ContextGet(context, k)[1] ELSE argumentsNode[k]]

\* the record of one call: the executor's validate and executeQuery calls it
\* made and how the returned promise settled
CallResult(validated, executed, settled, value) ==
    [validated |-> validated, executed |-> executed, settled |-> settled, value |-> value]

\* an execution that hands the caller's arguments to the executor as they are
executeCallerArguments(t, argumentsNode, context, queryOutcome) ==
    CallResult(<<>>, <<[query |-> t.apiQuery, variables |-> argumentsNode]>>,
               queryOutcome,
               IF queryOutcome = "resolved" THEN <<"result">> ELSE <<"query failed">>)

\* execute(argumentsNode, context); queryOutcome is how executeQuery settles
execute(t, argumentsNode, context, queryOutcome) ==
    LET variables == addOrOverrideFromContext(argumentsNode, t.contextKeys, context)
    IN  CallResult(<<>>, <<[query |-> t.apiQuery, variables |-> variables]>>,
                   queryOutcome,
                   IF queryOutcome = "resolved" THEN <<"result">> ELSE <<"query failed">>)

validateAndExecute(t, argumentsNode, context, queryOutcome) ==
    LET validation == validate(t, argumentsNode)
    IN  IF validation.result.valid
        THEN [execute(t, argumentsNode, context, queryOutcome)
                EXCEPT !.validated = <<validation>>]
        ELSE CallResult(<<validation>>, <<>>, "resolved",
                        createInvalidCallMessage(t.function.name,
                                                 validation.result.errorMessage))

\* JSON.parse over the texts the model uses: the value, or the SyntaxError
JSONParse(text) ==
    CASE text = "{}" -> [ok |-> TRUE, value |-> <<>>]
      [] text = "{\"limit\":\"u1\"}" -> [ok |-> TRUE, value |-> [k \in {"limit"} |-> "u1"]]
      [] text = "{\"customerid\":\"u1\",\"limit\":\"u1\"}" ->
            [ok |-> TRUE, value |-> [k \in {"customerid", "limit"} |-> "u1"]]
      [] text = "" -> [ok |-> FALSE, message |-> "Unexpected end of JSON input"]
      [] OTHER -> [ok |-> FALSE, message |-> "Unexpected token in JSON"]

\* validateAndExecuteFromString: the promise of validateAndExecute is returned
\* from inside the try without await, so the catch sees JSON.parse only
validateAndExecuteFromString(t, argsJson, context, queryOutcome) ==
    LET parsedArguments == JSONParse(argsJson)
    IN  IF parsedArguments.ok
        THEN validateAndExecute(t, parsedArguments.value, context, queryOutcome)
        ELSE CallResult(<<>>, <<>>, "resolved",
                        createInvalidCallMessage(t.function.name,
                            "Malformed JSON: " \o parsedArguments.message))

-----------------------------------------------------------------------------
(* The tool as a state machine: constructed once, then called *)

Property(name, type) == [name |-> name, def |-> ArgumentDef(type, <<>>, <<>>)]

FunctionDefinition(name, properties, required) ==
    [name |-> name,
     parameters |-> [type |-> "object", properties |-> properties, required |-> required]]

\* definitions a tool is constructed from
ToolDefinitions ==
    { FunctionDefinition("orders",
        << Property("customerid", "string"), Property("limit", "integer") >>,
        << "customerid" >>),
      FunctionDefinition("search",
        << Property("limit", "integer"), Property("customerId", "string"),
           Property("filter_min", "integer"), Property("Limit", "integer") >>,
        << "filter_min", "customerId", "limit" >>),
      FunctionDefinition("AddReading",
        << Property("temp", "number"), Property("CustomerID", "string") >>,
        << "temp", "CustomerID", "temp" >>),
      FunctionDefinition("ping", <<>>, <<>>) }

ContextKeySets == {{}, {"customerid"}, {"CustomerID", "limit"}}

ArgumentNames == {"customerid", "limit", "temp"}
ArgumentValues == {"u1", "u2"}
Arguments == UNION {[d -> ArgumentValues] : d \in SUBSET ArgumentNames}

Contexts == { <<>>, [k \in {"customerid"} |-> "c1"], [k \in {"CustomerId"} |-> "u2"],
              [k \in {"customerid", "limit"} |-> "c1"] }

JsonTexts == { "{}", "{\"limit\":\"u1\"}", "{\"customerid\":\"u1\",\"limit\":\"u1\"}",
               "", "{malformed" }

QueryOutcomes == {"resolved", "rejected"}

NoCall == [op |-> "none", input |-> <<>>, context |-> <<>>,
           result |-> [validated |-> <<>>, executed |-> <<>>, settled |-> "", value |-> <<>>]]

Call(op, input, context, result) ==
    [op |-> op, input |-> input, context |-> context, result |-> result]

toolFrame == <<executorKind, invalidNames, convVarsOfTool, created, batch>>

Construct ==
    /\ tool = <<>>
    /\ constructError = <<>>
    /\ created = <<>>
    /\ batch = <<>>
    /\ \E func \in ToolDefinitions, contextKeys \in ContextKeySets :
         LET r == APIFunctionConstructor(func, contextKeys, <<"query ", func.name>>)
         IN  /\ constructedFrom' = <<[function |-> func, contextKeys |-> contextKeys]>>
             /\ IF r.ok
                THEN tool' = <<r.tool>> /\ constructError' = constructError
                ELSE tool' = tool /\ constructError' = <<r.error>>
    /\ UNCHANGED <<modelFunction, lastCall>>
    /\ UNCHANGED toolFrame

GetModelFunction ==
    /\ tool # <<>>
    /\ modelFunction' = <<getModelFunction(tool[1])>>
    /\ UNCHANGED <<tool, constructedFrom, constructError, lastCall>>
    /\ UNCHANGED toolFrame

Execute ==
    /\ tool # <<>>
    /\ lastCall.op = "none"
    /\ \E argumentsNode \in Arguments, context \in Contexts, outcome \in QueryOutcomes :
         lastCall' = Call("execute", argumentsNode, context,
                          execute(tool[1], argumentsNode, context, outcome))
    /\ UNCHANGED <<tool, constructedFrom, constructError, modelFunction>>
    /\ UNCHANGED toolFrame

ValidateAndExecute ==
    /\ tool # <<>>
    /\ lastCall.op = "none"
    /\ \E argumentsNode \in Arguments, context \in Contexts, outcome \in QueryOutcomes :
         lastCall' = Call("validateAndExecute", argumentsNode, context,
                          validateAndExecute(tool[1], argumentsNode, context, outcome))
    /\ UNCHANGED <<tool, constructedFrom, constructError, modelFunction>>
    /\ UNCHANGED toolFrame

ValidateAndExecuteFromString ==
    /\ tool # <<>>
    /\ lastCall.op = "none"
    /\ \E argsJson \in JsonTexts, context \in Contexts, outcome \in QueryOutcomes :
         lastCall' = Call("validateAndExecuteFromString", argsJson, context,
                          validateAndExecuteFromString(tool[1], argsJson, context, outcome))
    /\ UNCHANGED <<tool, constructedFrom, constructError, modelFunction>>
    /\ UNCHANGED toolFrame

\* a factory is built the way the tests build it and creates one tool
CreateFromFactory ==
    /\ tool = <<>>
    /\ constructError = <<>>
    /\ created = <<>>
    /\ batch = <<>>
    /\ \E func \in ToolDefinitions, contextKeys \in ContextKeySets :
         created' = <<[functionDef |-> func, contextKeys |-> contextKeys,
                       apiExecutor |-> "E", query |-> <<"query ", func.name>>,
                       result |-> StandardAPIFunctionFactoryCreate(
                                      StandardAPIFunctionFactory("E", contextKeys),
                                      func, <<"query ", func.name>>)]>>
    /\ UNCHANGED <<tool, constructedFrom, constructError, modelFunction, lastCall>>
    /\ UNCHANGED <<executorKind, invalidNames, convVarsOfTool, batch>>

-----------------------------------------------------------------------------
(* APIFunction.executeTools: the tool calls are started in order, each       *)
(* executor query settles on its own, Promise.all collects the results       *)

\* a variant of the lookup where the first tool of a name wins
toolsMapGetFirst(toolDefinitions, name) ==
    LET named == {k \in 1..Len(toolDefinitions) : toolDefinitions[k].function.name = name}
    IN  IF named = {} THEN <<>>
        ELSE <<toolDefinitions[CHOOSE k \in named : \A j \in named : k <= j]>>

\* new Map(toolDefinitions.map((t) => [t.getName(), t])).get(name): a later
\* entry of a name replaces the earlier one; <<tool>>, or <<>> for undefined
toolsMapGet(toolDefinitions, name) ==
    LET named == {k \in 1..Len(toolDefinitions) : toolDefinitions[k].function.name = name}
    IN  IF named = {} THEN <<>>
        ELSE <<toolDefinitions[CHOOSE k \in named : \A j \in named : k >= j]>>

\* new DefaultContext()
DefaultContext == <<>>

\* res || ""
OrEmptyString(res) == IF res = <<>> THEN <<"">> ELSE res

\* one promise of executeTools(toolCall, toolDefinitions): what it validated,
\* the executor query it started, and how it has settled so far
ToolPromise(validated, executed, state, value) ==
    [validated |-> validated, executed |-> executed, state |-> state, value |-> value]

\* executeTools with a single tool call up to its await: an unknown tool and
\* a call that fails validation settle without the executor
StartToolCall(toolCall, apiFunction) ==
    IF apiFunction = <<>>
    THEN ToolPromise(<<>>, <<>>, "resolved", OrEmptyString(<<>>))
    ELSE LET r == validateAndExecute(apiFunction[1], toolCall.arguments,
                                     DefaultContext, "resolved")
         IN  IF r.executed = <<>>
             THEN ToolPromise(r.validated, <<>>, "resolved", OrEmptyString(r.value))
             ELSE ToolPromise(r.validated, r.executed, "pending", <<>>)

\* the executor query of the call settles: the await returns or throws
SettleToolCall(toolCall, apiFunction, queryOutcome) ==
    LET r == validateAndExecute(apiFunction[1], toolCall.arguments,
                                DefaultContext, queryOutcome)
    IN  ToolPromise(r.validated, r.executed, r.settled,
                    IF r.settled = "resolved" THEN OrEmptyString(r.value) ELSE r.value)

\* Promise.all over the promises, given how it had settled before and the
\* promise that settled last
PromiseAll(before, promises, last) ==
    IF before.state # "pending"
    THEN before
    ELSE IF last # 0 /\ promises[last].state = "rejected"
    THEN [state |-> "rejected", value |-> promises[last].value]
    ELSE IF \A i \in 1..Len(promises) : promises[i].state = "resolved"
    THEN [state |-> "resolved", value |-> [i \in 1..Len(promises) |-> promises[i].value]]
    ELSE before

ToolCall(name, arguments) == [name |-> name, arguments |-> arguments]

\* the tool calls a model sends
ToolCallPool ==
    { ToolCall("orders", <<>>),
      ToolCall("orders", [k \in {"customerid"} |-> "u1"]),
      ToolCall("unknown", <<>>) }

ToolCallSeqs == SeqsUpTo(ToolCallPool, MaxToolCalls)

\* the tool lists executeTools is given: two tools share the name orders
ToolLists ==
    LET strict == [function |-> FunctionDefinition("orders",
                                    << Property("customerid", "string") >>, << "customerid" >>),
                   contextKeys |-> {}, apiQuery |-> <<"query ", "orders", " strict">>]
        lax == [function |-> FunctionDefinition("orders",
                                 << Property("customerid", "string") >>, <<>>),
                contextKeys |-> {}, apiQuery |-> <<"query ", "orders", " lax">>]
    IN  { <<strict>>, <<strict, lax>>, <<lax, strict>> }

\* executeTools(toolsToCall, toolDefinitions) with an array: every call is
\* started in order before the first await returns
ExecuteTools ==
    /\ batch = <<>>
    /\ tool = <<>>
    /\ constructError = <<>>
    /\ created = <<>>
    /\ \E toolsToCall \in ToolCallSeqs, toolDefinitions \in ToolLists :
         LET promises == [i \in 1..Len(toolsToCall) |->
                            StartToolCall(toolsToCall[i],
                                          toolsMapGet(toolDefinitions, toolsToCall[i].name))]
         IN  batch' = <<[toolsToCall |-> toolsToCall,
                         toolDefinitions |-> toolDefinitions,
                         promises |-> promises,
                         order |-> <<>>,
                         all |-> PromiseAll([state |-> "pending", value |-> <<>>],
                                            promises, 0)]>>
    /\ UNCHANGED <<tool, constructedFrom, constructError, modelFunction, lastCall>>
    /\ UNCHANGED <<executorKind, invalidNames, convVarsOfTool, created>>

\* one of the executor queries in flight settles
SettleExecution ==
    /\ batch # <<>>
    /\ \E i \in 1..Len(batch[1].promises), queryOutcome \in QueryOutcomes :
         /\ batch[1].promises[i].state = "pending"
         /\ LET promises == [batch[1].promises EXCEPT
                                ![i] = SettleToolCall(batch[1].toolsToCall[i],
                                           toolsMapGet(batch[1].toolDefinitions,
                                                       batch[1].toolsToCall[i].name),
                                           queryOutcome)]
            IN  batch' = <<[batch[1] EXCEPT
                               !.promises = promises,
                               !.order = Append(@, i),
                               !.all = PromiseAll(@, promises, i)]>>
    /\ UNCHANGED <<tool, constructedFrom, constructError, modelFunction, lastCall>>
    /\ UNCHANGED <<executorKind, invalidNames, convVarsOfTool, created>>

\* the caller takes the settled promise of executeTools
TakeToolResults ==
    /\ batch # <<>>
    /\ batch[1].all.state # "pending"
    /\ \A i \in 1..Len(batch[1].promises) : batch[1].promises[i].state # "pending"
    /\ batch' = <<>>
    /\ UNCHANGED <<tool, constructedFrom, constructError, modelFunction, lastCall>>
    /\ UNCHANGED <<executorKind, invalidNames, convVarsOfTool, created>>

\* the caller takes the settled promise of the call
AwaitResult ==
    /\ lastCall.op # "none"
    /\ lastCall' = NoCall
    /\ UNCHANGED <<tool, constructedFrom, constructError, modelFunction>>
    /\ UNCHANGED toolFrame

ToolIdle ==
    /\ executorKind = "schema"
    /\ created = <<>>
    /\ batch = <<>>
    /\ tool = <<>>
    /\ constructedFrom = <<>>
    /\ constructError = <<>>
    /\ modelFunction = <<>>
    /\ lastCall = NoCall

ConverterIdle ==
    /\ schema = EmptySchema
    /\ document = <<>>
    /\ pc = "idle"
    /\ maxDepth = MaxDepthBound
    /\ impl = "converter"
    /\ ignorePrefixes = {}
    /\ idx = 1
    /\ mapped = <<>>
    /\ functionsFromQueries = <<>>
    /\ functionsFromMutations = <<>>
    /\ returned = <<>>
    /\ errorLog = <<>>
    /\ functions = <<>>
    /\ thrown = <<>>

-----------------------------------------------------------------------------
(* The converter as a state machine: one call of convertSchema, or one call *)
(* of convertOperations, on a converter built from a schema and a config    *)

\* the configurations the root-field schemas are converted under
Configs ==
    { [impl |-> "converter", ignorePrefixes |-> {}, invalidNames |-> {}],
      [impl |-> "tool", ignorePrefixes |-> {" Internal "}, invalidNames |-> {}],
      [impl |-> "converter", ignorePrefixes |-> {}, invalidNames |-> {"search", "Readings"}],
      [impl |-> "tool", ignorePrefixes |-> {" Internal "}, invalidNames |-> {"search"}] }

Init ==
    /\ \/ /\ schema \in GraphSchemas
          /\ document = <<>>
          /\ pc = "queries"
          /\ maxDepth \in 0..MaxDepthBound
          /\ impl = "converter"
          /\ ignorePrefixes = {}
          /\ invalidNames = {}
       \/ /\ schema \in RootSchemas
          /\ document = <<>>
          /\ pc = "queries"
          /\ maxDepth \in {0, MaxDepthBound}
          /\ \E c \in Configs :
                /\ impl = c.impl
                /\ ignorePrefixes = c.ignorePrefixes
                /\ invalidNames = c.invalidNames
       \/ /\ schema = EmptySchema
          /\ document \in Documents
          /\ pc = "parse"
          /\ maxDepth = MaxDepthBound
          /\ impl = "converter"
          /\ ignorePrefixes = {}
          /\ invalidNames \in {{}, {"search", "Readings"}}
    /\ ToolIdle
    /\ idx = 1
    /\ mapped = <<>>
    /\ functionsFromQueries = <<>>
    /\ functionsFromMutations = <<>>
    /\ returned = <<>>
    /\ errorLog = <<>>
    /\ functions = <<>>
    /\ thrown = <<>>

Next ==
    \/ MapQueryField
    \/ FilterQueries
    \/ MapMutationField
    \/ FilterMutations
    \/ ReturnFunctions
    \/ ParseOperations
    \/ ConvertDefinition
    \/ ReturnOperations

vars == <<convVars, toolVars>>

Spec == Init /\ [][Next]_vars

ToolInit ==
    /\ ConverterIdle
    /\ invalidNames \in {{}, {"search"}}
    /\ executorKind \in {"schema", "acceptAll", "rejectAll"}
    /\ created = <<>>
    /\ batch = <<>>
    /\ tool = <<>>
    /\ constructedFrom = <<>>
    /\ constructError = <<>>
    /\ modelFunction = <<>>
    /\ lastCall = NoCall

ToolNext ==
    \/ Construct
    \/ GetModelFunction
    \/ Execute
    \/ ValidateAndExecute
    \/ ValidateAndExecuteFromString
    \/ AwaitResult
    \/ CreateFromFactory
    \/ ExecuteTools
    \/ SettleExecution
    \/ TakeToolResults

ToolSpec == ToolInit /\ [][ToolNext]_vars

-----------------------------------------------------------------------------
(* Reading a synthesized query back against the schema *)

\* the tools a state holds
ToolsOf(lists) == UNION {Range(l) : l \in lists}

SchemaTools ==
    ToolsOf({functionsFromQueries, functionsFromMutations})
        \cup ToolsOf(Range(mapped)) \cup ToolsOf(Range(returned))

OperationTools == Range(functions)

ProducedTools == SchemaTools \cup OperationTools

ToolNames(tools) == [i \in 1..Len(tools) |-> tools[i].function.name]

\* the object type a selected field returns, under the enclosing object types
SelectedType(stack, fieldName) ==
    LET fields == IF stack = <<>>
                  THEN Range(schema.query) \cup Range(schema.mutation)
                  ELSE Range(schema.objects[stack[Len(stack)]])
    IN  Head(unwrapType((CHOOSE f \in fields : f.name = fieldName).type))

\* the positions of the tokens that open or close a selection block
BlockTokens(query) ==
    SelectSeq([i \in 1..Len(query) |-> i], LAMBDA i : query[i] \in {" {\n", "}"})

\* the name of the field whose selection block opens at position i: the last
\* token before i that starts a field entry
OpeningField(query, i) ==
    LET starts == {p \in 2..i : /\ query[p - 1] \in {") {\n", " {\n", "\n"}
                                /\ query[p] \notin {"}", "\n}"}}
    IN  query[CHOOSE p \in starts : \A other \in starts : other <= p]

\* walks the blocks of a query: the object types of the open selection blocks
\* (stack), the deepest nesting seen and whether a block was opened for an
\* object type that an enclosing block already selects
RECURSIVE WalkSelection(_, _, _, _, _, _)
WalkSelection(query, blocks, k, stack, depth, repeats) ==
    IF k > Len(blocks)
    THEN [depth |-> depth, repeats |-> repeats]
    ELSE IF query[blocks[k]] = "}"
    THEN WalkSelection(query, blocks, k + 1, SubSeq(stack, 1, Len(stack) - 1),
                       depth, repeats)
    ELSE WalkSelection(query, blocks, k + 1,
                       Append(stack, SelectedType(stack, OpeningField(query, blocks[k]))),
                       IF Len(stack) + 1 > depth THEN Len(stack) + 1 ELSE depth,
                       repeats \/ SelectedType(stack, OpeningField(query, blocks[k]))
                                    \in Range(stack))

SelectionDepth(query) ==
    WalkSelection(query, BlockTokens(query), 1, <<>>, 0, FALSE).depth

SelectsTypeInsideItself(query) ==
    WalkSelection(query, BlockTokens(query), 1, <<>>, 0, FALSE).repeats

\* the object types the fields of an object type return
Successors(type) ==
    {Head(unwrapType(f.type)) : f \in Range(schema.objects[type])} \cap ObjectNames

RECURSIVE ReachableIn(_, _)
ReachableIn(types, n) ==
    IF n = 0 THEN types
    ELSE ReachableIn(types \cup UNION {Successors(t) : t \in types}, n - 1)

\* the return-type graph of the field contains a cycle
HasCycle(field) ==
    /\ IsObjectType(unwrapType(field.type))
    /\ \E t \in ReachableIn({Head(unwrapType(field.type))}, Cardinality(ObjectNames)) :
          t \in ReachableIn(Successors(t), Cardinality(ObjectNames))

\* every argument of the root field, flattened, has a supported type
ArgumentsSupported(field) ==
    \A i \in 1..Len(field.args) :
        LET type == convertRequired(field.args[i].type).type
        IN  IF IsInputObjectType(type)
            THEN \A j \in 1..Len(InputFields(Head(type))) :
                    convertToArgument(convertRequired(InputFields(Head(type))[j].type).type).ok
            ELSE convertToArgument(type).ok

\* the root fields of the schema with their operation kind, in the order of
\* convertSchema
RootFields ==
    [i \in 1..Len(schema.query) |-> [operation |-> "query", field |-> schema.query[i]]]
        \o [i \in 1..Len(schema.mutation) |->
                [operation |-> "mutation", field |-> schema.mutation[i]]]

\* a root field that nothing but its traversal can keep from becoming a tool
Convertible(root) ==
    /\ operationFilter(root.operation, root.field.name)
    /\ ArgumentsSupported(root.field)
    /\ root.field.name \notin invalidNames

HasTool(name) == \E t \in Range(returned[1]) : t.function.name = name

LoggedFor(name, message) ==
    \E i \in 1..Len(errorLog) :
        errorLog[i].field = name /\ errorLog[i].error.message = message

ConvertSchemaDone == pc = "done" /\ document = <<>>

-----------------------------------------------------------------------------
(* C1..C3 *)

\* C1: in every tool convertSchema or convertOperations has produced, each
\* name of parameters.required is a key of parameters.properties.
C1_RequiredInProperties ==
    \A t \in ProducedTools :
        Range(t.function.parameters.required)
            \subseteq PropertyNames(t.function.parameters.properties)

\* a returned tool whose required names come from a flattened input object
\* and from the argument of a nested field
C1_Witness ==
    /\ ConvertSchemaDone
    /\ \E t \in Range(returned[1]) :
          {"min", "b_limit"} \subseteq Range(t.function.parameters.required)

\* C2 as claimed: every operation whose return-type graph contains a cycle
\* yields a tool (nothing else keeps the operation from converting).
C2_CyclicOperationYieldsTool ==
    ConvertSchemaDone =>
        \A i \in 1..Len(RootFields) :
            (HasCycle(RootFields[i].field) /\ Convertible(RootFields[i]))
                => HasTool(RootFields[i].field.name)

\* C2 amended: the traversal of an operation with a cyclic return-type graph
\* ends, and either yields a tool whose query selects no object type inside
\* itself (the cyclic branch is left out), or raises "Expected at least one
\* field" and yields no tool (the guards cut every field of an object).
C2_CyclicOperationEndsCutOrDropped ==
    ConvertSchemaDone =>
        \A i \in 1..Len(RootFields) :
            (HasCycle(RootFields[i].field) /\ Convertible(RootFields[i])) =>
                \/ /\ HasTool(RootFields[i].field.name)
                   /\ \A t \in Range(returned[1]) :
                        t.function.name = RootFields[i].field.name
                            => ~SelectsTypeInsideItself(t.apiQuery)
                \/ /\ ~HasTool(RootFields[i].field.name)
                   /\ LoggedFor(RootFields[i].field.name, ExpectedField)

\* a self-referential type whose cyclic field was left out of the tool's
\* query, beside an operation that was dropped
C2_Witness ==
    /\ ConvertSchemaDone
    /\ maxDepth = MaxDepthBound
    /\ \E i, j \in 1..Len(RootFields) :
          /\ HasCycle(RootFields[i].field) /\ Convertible(RootFields[i])
          /\ HasTool(RootFields[i].field.name)
          /\ \E f \in Range(schema.objects[Head(unwrapType(RootFields[i].field.type))]) :
                Head(unwrapType(f.type)) = Head(unwrapType(RootFields[i].field.type))
          /\ HasCycle(RootFields[j].field) /\ Convertible(RootFields[j])
          /\ ~HasTool(RootFields[j].field.name)

\* C3: the query of every tool of convertSchema nests object selection blocks
\* at most maxDepth deep.
C3_SelectionDepthAtMostMaxDepth ==
    \A t \in SchemaTools : SelectionDepth(t.apiQuery) <= maxDepth

\* a query nested exactly maxDepth deep although the schema goes deeper
C3_Witness ==
    /\ ConvertSchemaDone
    /\ maxDepth = 1
    /\ \E t \in Range(returned[1]) :
          /\ SelectionDepth(t.apiQuery) = 1
          /\ \E f \in Range(schema.objects["A"]) : Head(unwrapType(f.type)) = "B"
          /\ t.function.name = "orders"

-----------------------------------------------------------------------------
(* C4..C7, C10: the tool *)

EntryNames(properties) == [i \in 1..Len(properties) |-> properties[i].name]

\* the name equals no context key, compared case-insensitively
NotContextKey(contextKeys, name) ==
    \A k \in contextKeys : ToLowerCase(name) # ToLowerCase(k)

\* C4: getModelFunction returns the full definition's properties and required
\* entries whose name matches no context key case-insensitively, in their
\* order and unchanged, and the tool keeps the definition and the context
\* keys it was constructed with.
C4_ModelFunctionDropsContextKeys ==
    /\ tool # <<>> =>
          /\ tool[1].function = constructedFrom[1].function
          /\ tool[1].contextKeys = constructedFrom[1].contextKeys
    /\ modelFunction # <<>> =>
          LET full == constructedFrom[1].function.parameters
              K == constructedFrom[1].contextKeys
              model == modelFunction[1].parameters
          IN  /\ modelFunction[1].name = constructedFrom[1].function.name
              /\ model.type = full.type
              /\ model.required = SelectSeq(full.required, LAMBDA n : NotContextKey(K, n))
              /\ model.properties
                    = SelectSeq(full.properties, LAMBDA e : NotContextKey(K, e.name))

\* a model-facing definition that lost entries spelled differently from the
\* context keys, kept the others, while the tool still holds all of them
C4_Witness ==
    /\ modelFunction # <<>>
    /\ tool[1].contextKeys = {"CustomerID", "limit"}
    /\ EntryNames(tool[1].function.parameters.properties)
          = <<"limit", "customerId", "filter_min", "Limit">>
    /\ EntryNames(modelFunction[1].parameters.properties) = <<"filter_min">>
    /\ modelFunction[1].parameters.required = <<"filter_min">>
    /\ lastCall.op = "validateAndExecute"

C6_ExecutesOnlyValidatedCalls ==
    lastCall.op = "validateAndExecute" =>
        LET r == lastCall.result
        IN  /\ Len(r.validated) = 1
            /\ r.validated[1].definition = getModelFunction(tool[1])
            /\ r.validated[1].arguments = lastCall.input
            /\ r.executed # <<>> => r.validated[1].result.valid
            /\ ~r.validated[1].result.valid =>
                  /\ r.executed = <<>>
                  /\ r.settled = "resolved"
                  /\ r.value = createInvalidCallMessage(tool[1].function.name,
                                    r.validated[1].result.errorMessage)
                  /\ {tool[1].function.name, r.validated[1].result.errorMessage}
                        \subseteq Range(r.value)

\* the caller names the context key, which the model-facing definition does
\* not know: the call came back as the retry message and nothing was executed
C6_Witness ==
    /\ lastCall.op = "validateAndExecute"
    /\ executorKind = "schema"
    /\ tool[1].function.name = "orders"
    /\ tool[1].contextKeys = {"customerid"}
    /\ lastCall.input = [a \in {"customerid"} |-> "u1"]
    /\ lastCall.result.executed = <<>>
    /\ lastCall.result.settled = "resolved"
    /\ {"orders", "unknown property"} \subseteq Range(lastCall.result.value)

\* C7 as claimed: the promise of validateAndExecuteFromString always resolves
\* to a string; for malformed JSON that string is the retry message with the
\* tool's name and "Malformed JSON", and the executor is not invoked.
C7_FromStringNeverRaises ==
    lastCall.op = "validateAndExecuteFromString" =>
        /\ lastCall.result.settled = "resolved"
        /\ ~JSONParse(lastCall.input).ok =>
              /\ lastCall.result.validated = <<>>
              /\ lastCall.result.executed = <<>>
              /\ lastCall.result.value
                    = createInvalidCallMessage(tool[1].function.name,
                          "Malformed JSON: " \o JSONParse(lastCall.input).message)

\* C10: when the executor rejects the definition, the constructor raises the
\* error with the function's name and the validation message and no tool
\* exists; every tool that exists has a definition its executor accepts.
C10_RejectedDefinitionRaises ==
    /\ constructedFrom # <<>> =>
          LET validationResult == ExecutorValidateDefinition(constructedFrom[1].function)
          IN  IF validationResult.valid
              THEN tool # <<>> /\ constructError = <<>>
              ELSE /\ tool = <<>>
                   /\ constructError
                        = <<Error(FunctionInvalid, <<constructedFrom[1].function.name,
                                                     validationResult.errorMessage>>)>>
    /\ tool # <<>> => ExecutorValidateDefinition(tool[1].function).valid

\* a construction that raised for a rejected definition
C10_Witness ==
    /\ constructedFrom # <<>>
    /\ constructedFrom[1].function.name \in invalidNames
    /\ constructError # <<>>
    /\ tool = <<>>

-----------------------------------------------------------------------------
(* C8, C9: failures of one operation *)

\* the conversion of one root field on its own
ConversionOf(root) == convertToApiFunction(root.operation, root.field)

Contributes(root) ==
    operationFilter(root.operation, root.field.name) /\ ConversionOf(root).ok

\* C8: convertSchema returns, without raising, exactly the tools of the root
\* fields that the filter accepts and whose conversion does not raise, query
\* fields then mutation fields in declaration order, each tool being what the
\* conversion of its field alone yields; every other accepted field is logged.
C8_FailuresAreIsolated ==
    /\ (pc \in {"queries", "mutations", "return"} \/ ConvertSchemaDone) => thrown = <<>>
    /\ ConvertSchemaDone =>
          LET contributing == SelectSeq(RootFields, Contributes)
              failing == SelectSeq(RootFields,
                            LAMBDA root : operationFilter(root.operation, root.field.name)
                                            /\ ~ConversionOf(root).ok)
          IN  /\ returned[1] = [i \in 1..Len(contributing) |-> ConversionOf(contributing[i]).tool]
              /\ errorLog = [i \in 1..Len(failing) |->
                                [field |-> failing[i].field.name,
                                 error |-> ConversionOf(failing[i]).error]]

\* the first query fails on an unsupported type after one of its arguments
\* was added to its parameters; the second query and the mutation are
\* returned, and the first one's argument is in neither
C8_Witness ==
    /\ ConvertSchemaDone
    /\ Len(schema.query) = 2
    /\ schema.query[1].name = "report"
    /\ LoggedFor("report", UnsupportedType)
    /\ ToolNames(returned[1]) = <<"search", "addOrder">>
    /\ \A t \in Range(returned[1]) :
          "label" \notin PropertyNames(t.function.parameters.properties)

\* the contexts a field is visited under: every path of distinct object types
TraversalContexts ==
    { VisitContext("query.root", "p", 0, path) :
        path \in {q \in SeqsUpTo(ObjectNames, Cardinality(ObjectNames)) : IsDistinct(q)} }

TraversalFields ==
    Range(schema.query) \cup Range(schema.mutation)
        \cup UNION {Range(schema.objects[t]) : t \in ObjectNames}

\* visit gets past its guards and the arguments of the field and expands the
\* object type the field returns
ExpandsObject(field, ctx) ==
    /\ IsObjectType(unwrapType(field.type))
    /\ ~CycleDetected(ctx, unwrapType(field.type))
    /\ ~DepthExceeded(ctx)
    /\ ArgumentsSupported(field)

\* the visits of the child fields of the object type the field returns
ChildVisits(field, ctx) ==
    LET objectType == Head(unwrapType(field.type))
        fields == schema.objects[objectType]
    IN  [k \in 1..Len(fields) |->
            visit(fields[k], EmptyParameters, nested(ctx, fields[k].name, objectType, 0))]

\* C9: when visit expands an object type and no child visit succeeds, it
\* raises "Expected at least one field" with the operation path, which is not
\* the type mapper's error; the error of a child visit is the error of the
\* enclosing visit; and an operation whose traversal raised has no tool.
C9_EmptySelectionRaises ==
    /\ ExpectedField # UnsupportedType
    /\ (pc = "queries" /\ idx = 1) =>
          \A field \in TraversalFields, ctx \in TraversalContexts :
              ExpandsObject(field, ctx) =>
                  LET children == ChildVisits(field, ctx)
                      r == visit(field, EmptyParameters, ctx)
                  IN  /\ (\A k \in DOMAIN children :
                              ~children[k].success /\ children[k].err = <<>>)
                          => /\ r.err = <<Error(ExpectedField, <<ctx.operationName>>)>>
                             /\ ~r.success
                      /\ \A k \in DOMAIN children :
                            (children[k].err # <<>>
                                /\ \A j \in 1..(k - 1) : children[j].err = <<>>)
                                => r.err = children[k].err
    /\ ConvertSchemaDone =>
          \A i \in 1..Len(errorLog) :
              errorLog[i].error.message = ExpectedField => ~HasTool(errorLog[i].field)

\* the mutual cycle under the field b of A: every field of B is cut, the
\* error names the nested path and the operation has no tool
C9_Witness ==
    /\ ConvertSchemaDone
    /\ \E i \in 1..Len(errorLog) :
          /\ errorLog[i].error = Error(ExpectedField, <<"query.orders.b">>)
          /\ ~HasTool("orders")
          /\ operationFilter("query", "orders")

-----------------------------------------------------------------------------
(* C11, C12: convertOperations *)

ConvertOperationsEnded == document # <<>> /\ pc \in {"done", "thrown"}

IsOperation(definition) ==
    definition.kind = "OperationDefinition" /\ definition.operation \in {"query", "mutation"}

VariableNames(definition) ==
    [i \in 1..Len(definition.variableDefinitions) |-> definition.variableDefinitions[i].name]

\* C11 as claimed: a document of query and mutation operations (with distinct
\* variable names, over an executor that accepts every definition) converts
\* into one tool per operation, in document order, named by the operation,
\* with one property per variable, required exactly when its type is non-null.
C11_OneToolPerOperation ==
    (/\ ConvertOperationsEnded
     /\ invalidNames = {}
     /\ \A i \in 1..Len(document) :
           IsOperation(document[i]) /\ IsDistinct(VariableNames(document[i])))
        => /\ pc = "done"
           /\ Len(returned[1]) = Len(document)
           /\ \A i \in 1..Len(document) :
                 LET parameters == returned[1][i].function.parameters
                     variables == document[i].variableDefinitions
                 IN  /\ returned[1][i].function.name = document[i].name
                     /\ EntryNames(parameters.properties) = VariableNames(document[i])
                     /\ \A v \in 1..Len(variables) :
                           variables[v].name \in Range(parameters.required)
                               <=> Head(variables[v].type) = "NN"

\* C12: convertOperations returns a list only for a document in which every
\* definition is a query or mutation operation; for an empty document, a
\* definition that is not an operation or a subscription it raises the
\* matching error, whatever was converted before, and returns nothing.
C12_OffendingDocumentRaises ==
    /\ (pc = "done" /\ document # <<>>) =>
          \A i \in 1..Len(document) : IsOperation(document[i])
    /\ pc = "thrown" =>
          /\ returned = <<>>
          /\ Len(thrown) = 1
          /\ document = <<>> => thrown[1].message = NoDefinitions
          /\ document # <<>> =>
                /\ idx <= Len(document)
                /\ Len(functions) = idx - 1
                /\ document[idx].kind # "OperationDefinition"
                      => thrown[1] = Error(ExpectedOperation, <<document[idx].kind>>)
                /\ (document[idx].kind = "OperationDefinition" /\ ~IsOperation(document[idx]))
                      => thrown[1] = Error(NoSubscriptions, <<document[idx].name>>)
    /\ pc \in {"parse", "operations"} =>
          ENABLED (ParseOperations \/ ConvertDefinition \/ ReturnOperations)

\* a subscription after an operation that was converted: the error is raised
\* and the tool of the first operation is not returned
C12_Witness ==
    /\ pc = "thrown"
    /\ Len(document) = 2
    /\ IsOperation(document[1])
    /\ Len(functions) = 1
    /\ document[2].operation = "subscription"
    /\ returned = <<>>

-----------------------------------------------------------------------------
(* C13: the standard factory *)

\* C13 as claimed: the tool StandardAPIFunctionFactory.create returns for a
\* factory built with executor E and context keys K has contextKeys K, the
\* query it was given and executor E, and hides the context keys from its
\* model-facing definition.
C13_FactoryBindsKeysQueryExecutor ==
    created # <<>> =>
        /\ ExecutorValidateDefinition(created[1].functionDef).valid => created[1].result.ok
        /\ created[1].result.ok =>
              /\ created[1].result.tool.function = created[1].functionDef
              /\ created[1].result.tool.contextKeys = created[1].contextKeys
              /\ created[1].result.tool.apiQuery = created[1].query
              /\ created[1].result.apiExecutor = created[1].apiExecutor
              /\ \A k \in created[1].contextKeys :
                    k \notin PropertyNames(
                        getModelFunction(created[1].result.tool).parameters.properties)

-----------------------------------------------------------------------------
(* C14, C15: punctuation of the synthesized query *)

\* the position of the token that closes the variable list of a query
HeaderEnd(query) == CHOOSE k \in 1..Len(query) : query[k] = ") {\n"

\* the variable list of a query: the tokens between "(" and ") {"
QueryParams(query) == SubSeq(query, 5, HeaderEnd(query) - 1)

\* a variable list of n declarations "$name: type", each but the first
\* preceded by one ", ": 4n - 1 tokens for n >= 1
WellSeparatedDeclarations(params) ==
    \/ params = <<>>
    \/ /\ (Len(params) + 1) % 4 = 0
       /\ \A i \in 1..Len(params) :
             CASE i % 4 = 1 -> params[i] \notin {", ", ": "}
               [] i % 4 = 2 -> params[i] = ": "
               [] i % 4 = 3 -> params[i] \notin {", ", ": "}
               [] OTHER     -> params[i] = ", "

\* C14 as claimed: in the variable list of every synthesized query, each
\* declaration but the first is preceded by exactly one ", " and the first by
\* none.
C14_DeclarationsSeparatedByComma ==
    ConvertSchemaDone =>
        \A t \in Range(returned[1]) : WellSeparatedDeclarations(QueryParams(t.apiQuery))


\* the body of the query: what follows the header's ") {\n"
QueryBody(query) == SubSeq(query, HeaderEnd(query) + 1, Len(query))

\* the token opens an entry of an argument list: an argument or input field
\* name, followed by its binding or by the opening of a flattened object
OpensEntry(body, k) == k < Len(body) /\ body[k + 1] \in {": ", ": { "}

\* every entry follows the opening of its list or exactly one ", ", and every
\* ", " follows a complete entry
WellPunctuated(body) ==
    /\ \A k \in 1..Len(body) :
         OpensEntry(body, k) => k > 1 /\ body[k - 1] \in {"(", ": { ", ", "}
    /\ \A k \in 1..Len(body) :
         body[k] = ", " => /\ k > 1 /\ body[k - 1] \notin {"(", ": { ", ", "}
                           /\ OpensEntry(body, k + 1)

\* C15: in both visit implementations the argument list of every field is well
\* punctuated: inside a flattened object the first binding has no leading ", "
\* and each later one exactly one, and each argument after the first of the
\* field is separated from the previous one by exactly one ", "
C15_ArgumentListWellPunctuated ==
    ConvertSchemaDone =>
        \A t \in Range(returned[1]) : WellPunctuated(QueryBody(t.apiQuery))

\* the same, for the implementation in api-function.ts only
C15_ToolImplementationWellPunctuated ==
    (ConvertSchemaDone /\ impl = "tool") =>
        \A t \in Range(returned[1]) : WellPunctuated(QueryBody(t.apiQuery))


-----------------------------------------------------------------------------
(* C16: list types *)

\* a type without its outermost non-null wrapper
StripNonNull(type) == IF Head(type) = "NN" THEN Tail(type) ELSE type

\* the descriptor a type is to be mapped to: a list becomes an array whose
\* items are the descriptor of its element type without one non-null wrapper
RECURSIVE Descriptor(_)
Descriptor(type) ==
    IF Head(type) = "L"
    THEN ArgumentDef("array", <<Descriptor(StripNonNull(Tail(type)))>>, <<>>)
    ELSE IF Head(type) \in EnumNames
    THEN ArgumentDef("string", <<>>, <<EnumValues(Head(type))>>)
    ELSE ArgumentDef(scalarTypeMap(Head(type)), <<>>, <<>>)

\* lists of scalars or enums, at any nesting
RECURSIVE IsListOfScalars(_)
IsListOfScalars(type) ==
    /\ Head(type) = "L"
    /\ \/ Head(StripNonNull(Tail(type))) \in ScalarNames \cup EnumNames
       \/ IsListOfScalars(StripNonNull(Tail(type)))

\* the descriptor filed under the name: <<def>>, or <<>> when there is none
PropertyOf(parameters, name) ==
    LET hits == {k \in 1..Len(parameters.properties) : parameters.properties[k].name = name}
    IN  IF hits = {} THEN <<>> ELSE <<parameters.properties[CHOOSE k \in hits : TRUE].def>>

\* the list arguments of the root field are mapped by Descriptor in the tool
ListArgumentsMapped(t, field) ==
    \A a \in 1..Len(field.args) :
        IsListOfScalars(StripNonNull(field.args[a].type))
            => PropertyOf(t.function.parameters, field.args[a].name)
                   = <<Descriptor(StripNonNull(field.args[a].type))>>

\* the definitions up to the i-th are queries or mutations
OperationsUpTo(i) == \A k \in 1..i : IsOperation(document[k])

\* the definition declares a variable of a list type
DeclaresList(definition) ==
    \E v \in 1..Len(definition.variableDefinitions) :
        IsListOfScalars(StripNonNull(definition.variableDefinitions[v].type))

\* the list variables of the definition are mapped by Descriptor in the tool
ListVariablesMapped(t, definition) ==
    \A v \in 1..Len(definition.variableDefinitions) :
        IsListOfScalars(StripNonNull(definition.variableDefinitions[v].type))
            => PropertyOf(t.function.parameters, definition.variableDefinitions[v].name)
                   = <<Descriptor(StripNonNull(definition.variableDefinitions[v].type))>>

\* C16: a list type is mapped to an array descriptor carrying items, the
\* mapping of the element type without one non-null wrapper, for the arguments
\* of a schema (convertToArgument) and for the variables of an operation
\* document (convertType): a variable of type [Int!] becomes an array of
\* integers.
C16_ListMapsToArrayWithItems ==
    /\ ConvertSchemaDone =>
          \A i \in 1..Len(RootFields) : \A t \in Range(returned[1]) :
              t.function.name = RootFields[i].field.name
                  => ListArgumentsMapped(t, RootFields[i].field)
    /\ (ConvertOperationsEnded /\ invalidNames = {}) =>
          \A i \in 1..Len(document) :
              (OperationsUpTo(i) /\ DeclaresList(document[i]))
                  => /\ Len(functions) >= i
                     /\ ListVariablesMapped(functions[i], document[i])

\* the same for the arguments of a schema alone
C16_ListArgumentMapsToArray ==
    ConvertSchemaDone =>
        \A i \in 1..Len(RootFields) : \A t \in Range(returned[1]) :
            t.function.name = RootFields[i].field.name
                => ListArgumentsMapped(t, RootFields[i].field)

\* the same for list variables whose element type is nullable
C16_ListOfNullableVariableMapsToArray ==
    (ConvertOperationsEnded /\ invalidNames = {}) =>
        \A i \in 1..Len(document) :
            (/\ OperationsUpTo(i)
             /\ \A k \in 1..i : \A v \in 1..Len(document[k].variableDefinitions) :
                   "NN" \notin Range(StripNonNull(document[k].variableDefinitions[v].type)))
                => /\ Len(functions) >= i
                   /\ ListVariablesMapped(functions[i], document[i])


-----------------------------------------------------------------------------
(* C17: the context of the child visits *)

\* the arguments a field declares, a flattened input object counting one per
\* field
RECURSIVE FlatArgumentCount(_)
FlatArgumentCount(args) ==
    IF args = <<>> THEN 0
    ELSE (IF IsInputObjectType(convertRequired(Head(args).type).type)
          THEN Len(InputFields(Head(convertRequired(Head(args).type).type)))
          ELSE 1)
         + FlatArgumentCount(Tail(args))

\* the context every child of the expansion is to be visited with, whatever
\* its earlier siblings did
ChildContext(ctx, field, child) ==
    [operationName |-> ctx.operationName \o "." \o child.name,
     prefix |-> IF ctx.prefix = "" THEN child.name ELSE ctx.prefix \o "_" \o child.name,
     numArgs |-> ctx.numArgs + FlatArgumentCount(field.args),
     path |-> ctx.path \o <<Head(unwrapType(field.type))>>]

\* the child visits in order, each under ChildContext, sharing params
RECURSIVE ChildrenUnder(_, _, _, _, _)
RECURSIVE AfterChildUnder(_, _, _, _, _, _)

AfterChildUnder(fields, k, acc, ctx, field, r) ==
    ChildrenUnder(fields, k + 1,
        [err |-> r.err, params |-> r.params,
         queryParams |-> acc.queryParams \o r.queryParams,
         queryBody |-> acc.queryBody \o r.queryBody,
         atLeastOneField |-> acc.atLeastOneField \/ r.success],
        ctx, field)

ChildrenUnder(fields, k, acc, ctx, field) ==
    IF k > Len(fields) \/ acc.err # <<>>
    THEN acc
    ELSE AfterChildUnder(fields, k, acc, ctx, field,
            visit(fields[k], acc.params, ChildContext(ctx, field, fields[k])))

\* the field's own arguments, as visit handles them
OwnArguments(field, ctx) ==
    visitArgs(field.args, 1,
              Acc(<<>>, EmptyParameters, 0, <<>>,
                  <<field.name>> \o (IF Len(field.args) > 0 THEN <<"(">> ELSE <<>>),
                  FALSE),
              ctx)

ExpectedChildren(field, ctx) ==
    ChildrenUnder(schema.objects[Head(unwrapType(field.type))], 1,
        [err |-> <<>>, params |-> OwnArguments(field, ctx).params,
         queryParams |-> <<>>, queryBody |-> <<>>, atLeastOneField |-> FALSE],
        ctx, field)

\* the contexts a field is visited under: paths, prefixes and argument counts
ParentContexts ==
    { VisitContext("query.root", outer.prefix, outer.numArgs, path) :
        outer \in {[prefix |-> "", numArgs |-> 0], [prefix |-> "p", numArgs |-> 1]},
        path \in {q \in SeqsUpTo(ObjectNames, Cardinality(ObjectNames)) : IsDistinct(q)} }

\* the expansion of the field is the composition of its child visits, each
\* under ChildContext
ExpansionUsesChildContext(field, ctx) ==
    LET own == OwnArguments(field, ctx)
        children == ExpectedChildren(field, ctx)
        r == visit(field, EmptyParameters, ctx)
    IN  /\ r.params = children.params
        /\ children.err # <<>> => r.err = children.err
        /\ (children.err = <<>> /\ children.atLeastOneField) =>
              /\ r.success
              /\ r.queryParams = own.queryParams \o children.queryParams
              /\ r.queryBody = own.queryBody
                                 \o (IF Len(field.args) > 0 THEN <<")">> ELSE <<>>)
                                 \o <<" {\n">> \o children.queryBody \o <<"}", "\n">>
        /\ (children.err = <<>> /\ ~children.atLeastOneField) =>
              r.err = <<Error(ExpectedField, <<ctx.operationName>>)>>

\* C17: visit and nested leave the context they are given as it is: every
\* child of an object expansion is visited with the parent's path plus the
\* parent's object type, the parent's numArgs plus the parent field's own
\* argument count, and the parent's prefix combined with the child's name,
\* whatever the earlier siblings visited or returned.
C17_ChildrenVisitedUnderParentContext ==
    ConvertSchemaDone =>
        \A field \in TraversalFields, ctx \in ParentContexts :
            ExpandsObject(field, ctx) => ExpansionUsesChildContext(field, ctx)

\* an expansion with two children that both expand or declare arguments: the
\* second child sees the path and the argument count the first child saw
C17_Witness ==
    /\ ConvertSchemaDone
    /\ \E field \in Range(schema.query) :
          /\ ExpandsObject(field, VisitContext("query.root", "", 0, <<>>))
          /\ Len(field.args) > 0
          /\ Len(schema.objects[Head(unwrapType(field.type))]) = 2
          /\ \A child \in Range(schema.objects[Head(unwrapType(field.type))]) :
                /\ Len(child.args) > 0
                /\ visit(child, EmptyParameters,
                         ChildContext(VisitContext("query.root", "", 0, <<>>),
                                      field, child)).success
          /\ HasTool(field.name)


-----------------------------------------------------------------------------
(* C18: flat parameter names *)

\* the variables the header declares, in order: the tokens a ": " follows
DeclaredVariables(params) ==
    LET at == SelectSeq([k \in 1..Len(params) |-> k],
                        LAMBDA k : k < Len(params) /\ params[k + 1] = ": ")
    IN  [n \in 1..Len(at) |-> params[at[n]]]

\* C18: within one operation converted by convertSchema the flat parameter
\* names are unique: required holds no name twice, no entry of properties is
\* overwritten by a later argument (there is one entry per declared
\* variable), and the header declares each variable at most once.
C18_FlatNamesUnique ==
    ConvertSchemaDone =>
        \A t \in Range(returned[1]) :
            /\ IsDistinct(t.function.parameters.required)
            /\ IsDistinct(DeclaredVariables(QueryParams(t.apiQuery)))
            /\ Len(t.function.parameters.properties)
                   = Len(DeclaredVariables(QueryParams(t.apiQuery)))


-----------------------------------------------------------------------------
(* C19: the selection of the root field *)

\* the context convertToApiFunction visits the root field with
RootContext(root) ==
    VisitContext(root.operation \o "." \o root.field.name, "", 0, <<>>)

\* the depth guard aborts the visit of the root field itself
RootVisitAborted(root) ==
    /\ IsObjectType(unwrapType(root.field.type))
    /\ DepthExceeded(RootContext(root))

\* C19: for every maxDepth >= 0 and every schema, the query of every tool
\* convertSchema returns selects the operation's root field by name, and an
\* operation whose root visit the depth guard aborts has no tool.
C19_ToolSelectsRootField ==
    ConvertSchemaDone =>
        /\ \A t \in Range(returned[1]) :
              Head(QueryBody(t.apiQuery)) = t.function.name
        /\ \A i \in 1..Len(RootFields) :
              RootVisitAborted(RootFields[i]) => ~HasTool(RootFields[i].field.name)

\* with a depth limit of at least one the root field is always selected
C19_RootSelectedUnderPositiveDepth ==
    (ConvertSchemaDone /\ maxDepth >= 1) =>
        \A t \in Range(returned[1]) :
            Head(QueryBody(t.apiQuery)) = t.function.name


-----------------------------------------------------------------------------
(* C20: executeTools *)

\* the tool a call names: the last one of that name in the list, if any
LastNamed(toolDefinitions, name) ==
    LET named == {k \in 1..Len(toolDefinitions) : toolDefinitions[k].function.name = name}
    IN  IF named = {} THEN <<>>
        ELSE <<toolDefinitions[CHOOSE k \in named : \A j \in named : j <= k]>>

\* the string the i-th call is to yield when its execution resolves
ExpectedResult(b, i) ==
    LET named == LastNamed(b.toolDefinitions, b.toolsToCall[i].name)
    IN  IF named = <<>> THEN <<"">>
        ELSE validateAndExecute(named[1], b.toolsToCall[i].arguments, <<>>, "resolved").value

\* the executor query the i-th call is to start: none for an unknown tool or
\* arguments that fail validation
ExpectedQuery(b, i) ==
    LET named == LastNamed(b.toolDefinitions, b.toolsToCall[i].name)
    IN  IF named = <<>> THEN <<>>
        ELSE validateAndExecute(named[1], b.toolsToCall[i].arguments, <<>>, "resolved").executed

AllSettled(b) == \A i \in 1..Len(b.promises) : b.promises[i].state # "pending"

SomeRejected(b) == \E i \in 1..Len(b.promises) : b.promises[i].state = "rejected"

\* C20 as claimed: once the started executions have completed, in whatever
\* order, executeTools has resolved to one string per call, the result of
\* validateAndExecute on the last tool of the call's name or the empty string
\* when no tool has that name.
C20_ResolvesToOneResultPerCall ==
    (batch # <<>> /\ AllSettled(batch[1])) =>
        /\ batch[1].all.state = "resolved"
        /\ Len(batch[1].all.value) = Len(batch[1].toolsToCall)
        /\ \A i \in 1..Len(batch[1].toolsToCall) :
              batch[1].all.value[i] = ExpectedResult(batch[1], i)

\* C20 amended: every call is started whatever the other calls name; when
\* every started execution resolves, in whatever order, executeTools resolves
\* to one string per call as claimed; when an execution rejects, executeTools
\* rejects with the error of the first execution that rejected.
C20_OneResultPerCallUnlessRejected ==
    batch # <<>> =>
        /\ Len(batch[1].promises) = Len(batch[1].toolsToCall)
        /\ \A i \in 1..Len(batch[1].toolsToCall) :
              batch[1].promises[i].executed = ExpectedQuery(batch[1], i)
        /\ (AllSettled(batch[1]) /\ ~SomeRejected(batch[1])) =>
              /\ batch[1].all.state = "resolved"
              /\ Len(batch[1].all.value) = Len(batch[1].toolsToCall)
              /\ \A i \in 1..Len(batch[1].toolsToCall) :
                    batch[1].all.value[i] = ExpectedResult(batch[1], i)
        /\ batch[1].all.state = "resolved" => AllSettled(batch[1]) /\ ~SomeRejected(batch[1])
        /\ SomeRejected(batch[1]) =>
              /\ batch[1].all.state = "rejected"
              /\ \E k \in 1..Len(batch[1].order) :
                    /\ batch[1].promises[batch[1].order[k]].state = "rejected"
                    /\ batch[1].all.value = batch[1].promises[batch[1].order[k]].value
                    /\ \A j \in 1..(k - 1) :
                          batch[1].promises[batch[1].order[j]].state = "resolved"
        /\ batch[1].all.state = "rejected" => SomeRejected(batch[1])

\* two tools share a name and, of the two executions started, the later one
\* completed first: the results are in call order and come from the last tool
\* of the name, which accepts the call without arguments
C20_Witness ==
    /\ batch # <<>>
    /\ Len(batch[1].toolDefinitions) = 2
    /\ batch[1].toolDefinitions[2].function.parameters.required = <<>>
    /\ Len(batch[1].toolsToCall) = 2
    /\ batch[1].toolsToCall[1].arguments # batch[1].toolsToCall[2].arguments
    /\ batch[1].order = <<2, 1>>
    /\ batch[1].all.state = "resolved"
    /\ batch[1].all.value = <<<<"result">>, <<"result">>>>

\* a call to an unknown tool beside a call that ran: the empty string and the
\* result
C20_UnknownToolWitness ==
    /\ batch # <<>>
    /\ Len(batch[1].toolsToCall) = 2
    /\ batch[1].toolsToCall[1].name = "unknown"
    /\ batch[1].all.state = "resolved"
    /\ batch[1].all.value = <<<<"">>, <<"result">>>>

====
